---- MODULE Spec2Model ----
(***************************************************************************)
(* A model of LSIDResolver.py: the Resolver pipeline (validate, authority  *)
(* discovery, service discovery, payload GETs), the Authority and Service  *)
(* objects it drives, and the file cache they share.                       *)
(*                                                                         *)
(* Strings and byte strings are sequences of tokens: single characters     *)
(* where the code inspects characters (the LSID, an SRV target), whole     *)
(* chunks elsewhere (a URL prefix, a location).  The empty string is <<>>. *)
(*                                                                         *)
(* Specifications:                                                         *)
(*   Spec            resolve_lsid called on a Resolver, time passing and   *)
(*                   other users of the cache storing files in between     *)
(*   SpecLocate      resolve_lsid up to the fetch of the authority         *)
(*                   description, the records of each DNS answer logged    *)
(*   SpecValidate    validate_lsid called directly on many strings         *)
(*   SpecCache       the cache called through Authority and Service        *)
(*                   objects, one call after the other                     *)
(*   SpecConcurrent  the cache called by threads side by side, a step per  *)
(*                   file system call                                      *)
(***************************************************************************)
EXTENDS Integers, Sequences, FiniteSets, TLC

\* ------------------------------------------------------------------ bounds

\* How many times the clock advances in one behaviour.
MaxTicks == 1
\* How many times resolve_lsid is called in one behaviour.
MaxResolves == 2
\* How many files other users of the Cache object store in one behaviour.
MaxStores == 1
\* The largest number of address elements one binding role has in a document.
MaxNodes == 2
\* The largest number of SRV records one DNS answer holds.
MaxAnswers == 2
\* How many threads use the cache side by side.
MaxThreads == 2
\* How many Authority and Service objects a user of the cache constructs.
MaxComponents == 2
\* How many times the cache is called through those objects in one behaviour.
MaxCacheOps == 3
\* The largest number of colon-separated fields after the scheme in a string
\* handed to validate_lsid directly.
MaxSegments == 5

\* ------------------------------------------------------ values of the code

\* Python's None where a string is expected: distinct from every string (no
\* string holds this token).
None == <<"<None>">>

\* Cache.CACHE_TIME: two days, in seconds.
CACHE_TIME == 172800

\* The clock steps of the model, in seconds: a file gets an age just below,
\* at or just above CACHE_TIME in one step.
TickSteps == {CACHE_TIME - 1, CACHE_TIME, CACHE_TIME + 1}

\* The UTC offsets (seconds east of UTC) of the zone the process runs in.
TzOffsets == {0 - 3600, 0, 3600}

\* ----------------------------------------------------------------- strings

Lower == {"a","b","c","d","e","f","g","h","i","j","k","l","m",
          "n","o","p","q","r","s","t","u","v","w","x","y","z"}
Upper == {"A","B","C","D","E","F","G","H","I","J","K","L","M",
          "N","O","P","Q","R","S","T","U","V","W","X","Y","Z"}
Digit == {"0","1","2","3","4","5","6","7","8","9"}
\* [A-Za-z0-9]
Alnum == Lower \cup Upper \cup Digit
\* Letters outside ASCII that Python 3's \w matches in a str pattern.
UnicodeWord == {"U+00E9", "U+00DF"}
\* \w of a Python 3 str pattern
WordChar == Alnum \cup {"_"} \cup UnicodeWord
\* [\w()+,\-.=@;$"!*']
SegChar == WordChar \cup {"(", ")", "+", ",", "-", ".", "=", "@", ";", "$", "\"", "!", "*", "'"}

RECURSIVE SplitFrom(_, _, _)
\* str.split(sep) continued: cur is the field being read.
SplitFrom(s, sep, cur) ==
    IF s = <<>> THEN <<cur>>
    ELSE IF Head(s) = sep THEN <<cur>> \o SplitFrom(Tail(s), sep, <<>>)
    ELSE SplitFrom(Tail(s), sep, Append(cur, Head(s)))

\* str.split(sep): the fields between the separators, empty ones kept.
Split(s, sep) == SplitFrom(s, sep, <<>>)

\* One segment of the pattern: [A-Za-z0-9][\w()+,\-.=@;$"!*']*
IsSegment(f) ==
    /\ Len(f) >= 1
    /\ f[1] \in Alnum
    /\ \A i \in 2..Len(f) : f[i] \in SegChar

\* The pattern between ^ and $: urn:lsid:SEG:SEG:SEG(:SEG)?
MatchesBody(s) ==
    LET f == Split(s, ":") IN
    /\ Len(f) \in {5, 6}
    /\ Len(f[1]) = 3
    /\ f[1][1] \in {"u", "U"} /\ f[1][2] \in {"r", "R"} /\ f[1][3] \in {"n", "N"}
    /\ Len(f[2]) = 4
    /\ f[2][1] \in {"l", "L"} /\ f[2][2] \in {"s", "S"}
    /\ f[2][3] \in {"i", "I"} /\ f[2][4] \in {"d", "D"}
    /\ \A i \in 3..Len(f) : IsSegment(f[i])

\* re.match(pattern, lsid): $ matches at the end of the string and also just
\* before a newline that ends the string.
PatternMatches(s) ==
    \/ MatchesBody(s)
    \/ /\ Len(s) >= 1
       /\ s[Len(s)] = "\n"
       /\ MatchesBody(SubSeq(s, 1, Len(s) - 1))

\* Resolver.validate_lsid: "" when it returns True, else the exception raised
\* (re.match on None raises TypeError).
validate_lsid(l) ==
    IF l = None THEN "TypeError"
    ELSE IF PatternMatches(l) THEN ""
    ELSE "ValidationError"

\* ------------------------------------------------------------- byte strings

\* A byte string is <<>> (b''), or a sequence of tokens.  A well-formed XML
\* document is the Root token followed by its address elements in document
\* order; anything else does not parse.
Root == [tag |-> "root", binding |-> "", location |-> <<>>]
Junk == [tag |-> "junk", binding |-> "", location |-> <<>>]

\* An address element under a wsdl:port whose binding matches the role's
\* pattern; location is its location attribute, None when it has none.
Address(role, loc) == [tag |-> "address", binding |-> role, location |-> loc]

\* The bytes of a well-formed document with the given address elements.
Doc(nodes) == <<Root>> \o nodes

\* etree.fromstring succeeds on these bytes.
Parses(b) == Len(b) >= 1 /\ b[1] = Root /\ \A i \in 2..Len(b) : b[i].tag = "address"

RECURSIVE SelectNodes(_, _)
\* wsdl.xpath(...): the address elements of the role, in document order.
SelectNodes(b, role) ==
    IF b = <<>> THEN <<>>
    ELSE IF Head(b).tag = "address" /\ Head(b).binding = role
         THEN <<Head(b)>> \o SelectNodes(Tail(b), role)
         ELSE SelectNodes(Tail(b), role)

\* A token that is no XML: what a value that is not a byte string, or a
\* payload, is made of.
Mark(t) == [tag |-> t, binding |-> "", location |-> <<>>]
\* Python's False where bytes are expected (check_cache_file, get_data).
False == <<Mark("False")>>
\* Python's None where bytes are expected (get_metadata without a URL).
NoneBytes == <<Mark("None")>>
\* urlopen raised (URLError, socket.timeout) instead of answering.
HttpError == <<Mark("URLError")>>
\* Nothing printed yet for a payload.
Unset == <<Mark("unset")>>

\* Python truthiness of what check_cache_file returned: `not file` holds for
\* False and for b''.
Not(v) == v = False \/ v = <<>>

\* --------------------------------------------------------------- the cache

FileNames == {"authority.wsdl", "service.wsdl"}
NoFile == [exists |-> FALSE, content |-> <<>>, mtime |-> 0]

\* datetime.datetime.utcnow(): the naive UTC wall clock, in seconds.
utcnow(t) == t
\* datetime.datetime.fromtimestamp(ts): the naive wall clock of the local
\* zone, offset seconds east of UTC.
fromtimestamp(ts, offset) == ts + offset

\* Cache.get_cache_expiration at time t in a zone of the given offset.
get_cache_expiration(file_date, t, offset) ==
    LET cache_valid == utcnow(t) - CACHE_TIME IN
    cache_valid <= fromtimestamp(file_date, offset)

\* Cache.check_cache_file on the files fs.
check_cache_file(fs, service_name, file_name, t, offset) ==
    LET f == fs[<<service_name, file_name>>] IN
    IF f.exists /\ get_cache_expiration(f.mtime, t, offset)
    THEN f.content
    ELSE False

\* Cache.store_cache_file: the files after the write at time t.
store_cache_file(fs, service_name, file_name, content, t) ==
    [fs EXCEPT ![<<service_name, file_name>>] =
        [exists |-> TRUE, content |-> content, mtime |-> t]]

\* Cache._instance before the first Cache() call: None.
NoCache == <<"<None>", "Cache">>
\* The one Cache object a process makes.
TheCache == <<"Cache", "object">>

\* Singleton.__call__ for Cache(): the object returned, which is also what
\* Cache._instance holds afterwards.
Singleton_call(cls_instance) ==
    IF cls_instance = NoCache THEN TheCache ELSE cls_instance

\* --------------------------------------------------------- the environment

\* "urn:lsid:a:n:1" and "urn:lsid:a:n:2": two LSIDs of the authority "a".
LsidOne == <<"u","r","n",":","l","s","i","d",":","a",":","n",":","1">>
LsidTwo == <<"u","r","n",":","l","s","i","d",":","a",":","n",":","2">>
\* "urn:lsrsp:021946", the bogus LSID of the tests.
LsidBogus == <<"u","r","n",":","l","s","r","s","p",":","0","2","1","9","4","6">>
\* What a caller passes to set_lsid.
LsidInputs == {LsidOne, LsidTwo, LsidBogus}

\* The cache directories: one per authority name.
Partitions == {<<"a">>}
Keys == Partitions \X FileNames

\* SRV records: the target as dns.name.Name.to_text() gives it, and the port.
\* The third is the root target ".".
SrvRecords == {[target |-> <<"h", ".">>, port |-> 443],
               [target |-> <<"g">>, port |-> 80],
               [target |-> <<".">>, port |-> 80]}
\* The answers of a DNS query that does not raise: dns.resolver.query raises
\* NoAnswer rather than return no record.
DnsAnswers == UNION {[1..k -> SrvRecords] : k \in 1..MaxAnswers}

\* The lists of address elements one role has in a document: none, one (with
\* each location, with an empty location, with no location attribute), or
\* several.
NodeLists(role, locs, odd) ==
    {<<>>}
    \cup {<<Address(role, l)>> : l \in locs \cup odd}
    \cup {[i \in 1..k |-> Address(role, CHOOSE l \in locs : TRUE)] : k \in 2..MaxNodes}

AuthorityLocations == {<<"https://lsid.nmbe.ch:443">>}
DataLocations == {<<"https://lsid.nmbe.ch/authority/data">>}
MetadataLocations == {<<"https://lsid.nmbe.ch/authority/metadata">>}

\* What the authority's /authority/ URL answers: b'', bytes that are no XML,
\* or a document.
AuthorityBodies ==
    {<<>>, <<Junk>>}
    \cup {Doc(a) : a \in NodeLists("authority", AuthorityLocations, {None, <<>>})}
\* A role's binding is as it should be: one address element, with a location.
Plain(nodes) == Len(nodes) = 1 /\ nodes[1].location # None
\* What /authority/?lsid= answers: bytes that are no XML, or a document in
\* which each role's binding is missing, duplicated or without a location
\* beside a binding of the other role that is missing or as it should be.
ServiceBodies ==
    {<<Junk>>}
    \cup {Doc(d \o m) : <<d, m>> \in
            {x \in NodeLists("data", DataLocations, {None})
                     \X NodeLists("metadata", MetadataLocations, {None}) :
                \/ x[1] = <<>> \/ Plain(x[1]) \/ x[2] = <<>> \/ Plain(x[2])}}
\* What a data or metadata endpoint answers.
PayloadBodies == {<<Mark("payload")>>}
\* What a caller of Cache.store_cache_file other than the resolver writes.
ClientBytes == {<<>>}

\* The threads of a process that use the cache side by side.
Threads == 1..MaxThreads
\* A thread that has not called the cache.
NoCall == [pc |-> "idle", op |-> "", service_name |-> <<>>, file_name |-> "",
           content |-> <<>>, pos |-> 0, ret |-> Unset]
\* The objects a Resolver holds: Resolver.__init__ makes an Authority and a
\* Service.
ResolverComponents == <<"Authority", "Service">>

\* ------------------------------------------------------ Authority, Service

\* str(dnsdata.port)
Str(port) == IF port = 443 THEN <<"443">> ELSE <<"80">>

\* The target without its last character when that is a point.
StripDot(text) ==
    IF text[Len(text)] = "." THEN SubSeq(text, 1, Len(text) - 1) ELSE text

\* The loop of set_service_url keeping the first record instead of the last.
SrvLoopFirst(answers, acc) ==
    IF answers = <<>> THEN acc
    ELSE [service_url |-> StripDot(answers[1].target),
          service_port |-> Str(answers[1].port)]

RECURSIVE SrvLoop(_, _)
\* The for loop of Authority.set_service_url over the answers, from the
\* fields acc = [service_url, service_port].
SrvLoop(answers, acc) ==
    IF answers = <<>> THEN acc
    ELSE SrvLoop(Tail(answers),
                 [service_url |-> StripDot(Head(answers).target),
                  service_port |-> Str(Head(answers).port)])

\* Authority.set_service_url on the answers of the query: the fields after
\* it, and the exception it raises ("" for none).
set_service_url(answers, old_url, old_port) ==
    LET acc == SrvLoop(answers, [service_url |-> old_url, service_port |-> old_port]) IN
    [service_url |-> acc.service_url,
     service_port |-> acc.service_port,
     err |-> IF acc.service_url = None \/ acc.service_url = <<>>
             THEN "NoValueError" ELSE ""]

\* The URL get_authority_wsdl opens.
AuthorityWsdlUrl(host, port) ==
    (IF port = <<"443">> THEN <<"https://">> ELSE <<"http://">>)
        \o host \o <<":">> \o port \o <<"/authority/">>

\* The URL get_service_wsdl opens.
ServiceWsdlUrl(authority, l) == authority \o <<"/authority/?lsid=">> \o l

\* The URL get_data and get_metadata open.
PayloadUrl(endpoint, l) == endpoint \o <<"?lsid=">> \o l

\* extract_authority_url taking the first matching element instead of
\* unpacking exactly one.
extract_first_authority_url(wsdl, old) ==
    LET nodes == SelectNodes(wsdl, "authority") IN
    IF Len(nodes) = 0
    THEN [authority_url |-> old, err |-> "NoElementError"]
    ELSE LET loc == nodes[1].location IN
         IF loc = None
         THEN [authority_url |-> None, err |-> "TypeError"]
         ELSE IF loc = <<>>
         THEN [authority_url |-> loc, err |-> "NoValueError"]
         ELSE [authority_url |-> loc, err |-> ""]

\* Authority.extract_authority_url on a parsed document: the authority_url
\* after it (old when it is not assigned) and the exception raised.
extract_authority_url(wsdl, old) ==
    LET nodes == SelectNodes(wsdl, "authority") IN
    IF Len(nodes) # 1
    THEN [authority_url |-> old, err |-> "NoElementError"]
    ELSE LET loc == nodes[1].location IN
         IF loc = None
         THEN [authority_url |-> None, err |-> "TypeError"]
         ELSE IF loc = <<>>
         THEN [authority_url |-> loc, err |-> "NoValueError"]
         ELSE [authority_url |-> loc, err |-> ""]

\* One try block of Service.extract_service_url for a role: the URL field
\* after it and the exception that leaves the block ("" for none).
ExtractRole(wsdl, role, old) ==
    LET nodes == SelectNodes(wsdl, role) IN
    IF Len(nodes) # 1
    THEN [url |-> old, err |-> ""]
    ELSE IF nodes[1].location = None
    THEN [url |-> None, err |-> "TypeError"]
    ELSE [url |-> nodes[1].location, err |-> ""]

\* Service.extract_service_url: the data block, then the metadata block
\* unless the data block raised.
extract_service_url(wsdl, old_data, old_metadata) ==
    LET d == ExtractRole(wsdl, "data", old_data) IN
    IF d.err # ""
    THEN [data_url |-> d.url, metadata_url |-> old_metadata, err |-> d.err]
    ELSE LET m == ExtractRole(wsdl, "metadata", old_metadata) IN
         [data_url |-> d.url, metadata_url |-> m.url, err |-> m.err]

\* -------------------------------------------------------------- the state

VARIABLES
    now,            \* the clock: seconds since the epoch
    ticks,          \* how many times the clock has advanced
    resolves,       \* how many times resolve_lsid has been called
    stores,         \* how many files other users of the cache have stored
    tz,             \* the UTC offset of the process's local zone, in seconds
    files,          \* the cache directory: key -> file (content, mtime)
    lsid,           \* Resolver.lsid
    url_part,       \* Authority.url_part
    service_url,    \* Authority.service_url
    service_port,   \* Authority.service_port
    authority_url,  \* Authority.authority_url
    data_url,       \* Service.data_url
    metadata_url,   \* Service.metadata_url
    pc,             \* where resolve_lsid stands: the call it makes next
    ops,            \* what the current resolve_lsid has done so far, in order
    err,            \* the exception that ended the current resolve_lsid, or ""
    out,            \* what the current resolve_lsid printed as data and metadata
    completed,      \* the LSID of the last resolve_lsid that ran to its end, or None
    _instance,      \* Cache._instance: NoCache, or the Cache object made first
    components,     \* the kinds of the Authority and Service objects in use
    threads         \* the threads that use the cache side by side

vars == <<now, ticks, resolves, stores, tz, files, lsid, url_part, service_url, service_port,
          authority_url, data_url, metadata_url, pc, ops, err, out, completed,
          _instance, components, threads>>

clock == <<now, ticks, tz>>
calls == <<resolves, stores>>
authority == <<url_part, service_url, service_port, authority_url>>
objects == <<_instance, components>>
service == <<data_url, metadata_url>>

\* One entry of ops: the call, the document it is about, its string
\* argument, the bytes it returned or was given (for the DNS query: the
\* records it answered), whether it returned (FALSE: it raised), the cache
\* file it saw, and the time.
Op(op, doc, arg, ret, ok, entry, at) ==
    [op |-> op, doc |-> doc, arg |-> arg, ret |-> ret, ok |-> ok,
     entry |-> entry, at |-> at]

\* resolve_lsid is not running.
Idle == pc \in {"idle", "done", "failed"}

\* The calls of resolve_lsid in the order of its try block.
Steps == <<"validate_lsid", "get_authority_part", "get_authority_wsdl",
           "get_service_wsdl", "get_data", "get_metadata">>

\* The place of a call in Steps.
StepIndex(step) == CHOOSE i \in 1..Len(Steps) : Steps[i] = step

\* NextPc with each call in a try block of its own: an exception is reported
\* and the next call runs.
NextPcGoesOn(step, e) ==
    IF StepIndex(step) = Len(Steps) THEN "done"
    ELSE Steps[StepIndex(step) + 1]

\* Resolver.resolve_lsid's control flow after a call: an exception (e # "")
\* leaves the try block for the except clause, otherwise the next call runs.
NextPc(step, e) ==
    IF e # "" THEN "failed"
    ELSE IF StepIndex(step) = Len(Steps) THEN "done"
    ELSE Steps[StepIndex(step) + 1]

\* The except clause of resolve_lsid: what it adds to ops when a call of the
\* try block raised e, the print of the cause and of the failure notice.
Except(e, t) ==
    IF e = "" THEN <<>>
    ELSE <<Op("except", "", <<e, "LSID resolving failed">>, <<>>, TRUE, NoFile, t)>>

\* FetchWsdl with a GET that is tried a second time when it raises.
FetchWsdlRetry(file_name, file, entry, url, resp, t) ==
    LET look == Op("check_cache_file", file_name, <<>>, file, TRUE, entry, t) IN
    IF Not(file)
    THEN IF resp = HttpError
         THEN [ops |-> <<look, Op("urlopen", file_name, url, <<>>, FALSE, NoFile, t),
                         Op("urlopen", file_name, url, <<>>, FALSE, NoFile, t)>>,
               err |-> "URLError", wsdl |-> <<>>, store |-> FALSE]
         ELSE IF ~Parses(resp)
         THEN [ops |-> <<look, Op("urlopen", file_name, url, resp, TRUE, NoFile, t),
                         Op("fromstring", file_name, <<>>, resp, FALSE, NoFile, t)>>,
               err |-> "XMLSyntaxError", wsdl |-> <<>>, store |-> FALSE]
         ELSE [ops |-> <<look, Op("urlopen", file_name, url, resp, TRUE, NoFile, t),
                         Op("fromstring", file_name, <<>>, resp, TRUE, NoFile, t),
                         Op("store_cache_file", file_name, <<>>, resp, TRUE, NoFile, t)>>,
               err |-> "", wsdl |-> resp, store |-> TRUE]
    ELSE IF ~Parses(file)
         THEN [ops |-> <<look, Op("fromstring", file_name, <<>>, file, FALSE, NoFile, t)>>,
               err |-> "XMLSyntaxError", wsdl |-> <<>>, store |-> FALSE]
         ELSE [ops |-> <<look, Op("fromstring", file_name, <<>>, file, TRUE, NoFile, t)>>,
               err |-> "", wsdl |-> file, store |-> FALSE]

\* FetchWsdl with the response stored before it is parsed.
FetchWsdlStoreFirst(file_name, file, entry, url, resp, t) ==
    LET look == Op("check_cache_file", file_name, <<>>, file, TRUE, entry, t) IN
    IF Not(file)
    THEN IF resp = HttpError
         THEN [ops |-> <<look, Op("urlopen", file_name, url, <<>>, FALSE, NoFile, t)>>,
               err |-> "URLError", wsdl |-> <<>>, store |-> FALSE]
         ELSE IF ~Parses(resp)
         THEN [ops |-> <<look, Op("urlopen", file_name, url, resp, TRUE, NoFile, t),
                         Op("store_cache_file", file_name, <<>>, resp, TRUE, NoFile, t),
                         Op("fromstring", file_name, <<>>, resp, FALSE, NoFile, t)>>,
               err |-> "XMLSyntaxError", wsdl |-> <<>>, store |-> TRUE]
         ELSE [ops |-> <<look, Op("urlopen", file_name, url, resp, TRUE, NoFile, t),
                         Op("store_cache_file", file_name, <<>>, resp, TRUE, NoFile, t),
                         Op("fromstring", file_name, <<>>, resp, TRUE, NoFile, t)>>,
               err |-> "", wsdl |-> resp, store |-> TRUE]
    ELSE IF ~Parses(file)
         THEN [ops |-> <<look, Op("fromstring", file_name, <<>>, file, FALSE, NoFile, t)>>,
               err |-> "XMLSyntaxError", wsdl |-> <<>>, store |-> FALSE]
         ELSE [ops |-> <<look, Op("fromstring", file_name, <<>>, file, TRUE, NoFile, t)>>,
               err |-> "", wsdl |-> file, store |-> FALSE]

\* The body shared by get_authority_wsdl and get_service_wsdl up to the
\* extraction: the cache lookup (file is what it returned, entry the file it
\* saw), on a miss the GET of url answered by resp, the parse, the store.
FetchWsdl(file_name, file, entry, url, resp, t) ==
    LET look == Op("check_cache_file", file_name, <<>>, file, TRUE, entry, t) IN
    IF Not(file)
    THEN IF resp = HttpError
         THEN [ops |-> <<look, Op("urlopen", file_name, url, <<>>, FALSE, NoFile, t)>>,
               err |-> "URLError", wsdl |-> <<>>, store |-> FALSE]
         ELSE IF ~Parses(resp)
         THEN [ops |-> <<look, Op("urlopen", file_name, url, resp, TRUE, NoFile, t),
                         Op("fromstring", file_name, <<>>, resp, FALSE, NoFile, t)>>,
               err |-> "XMLSyntaxError", wsdl |-> <<>>, store |-> FALSE]
         ELSE [ops |-> <<look, Op("urlopen", file_name, url, resp, TRUE, NoFile, t),
                         Op("fromstring", file_name, <<>>, resp, TRUE, NoFile, t),
                         Op("store_cache_file", file_name, <<>>, resp, TRUE, NoFile, t)>>,
               err |-> "", wsdl |-> resp, store |-> TRUE]
    ELSE IF ~Parses(file)
         THEN [ops |-> <<look, Op("fromstring", file_name, <<>>, file, FALSE, NoFile, t)>>,
               err |-> "XMLSyntaxError", wsdl |-> <<>>, store |-> FALSE]
         ELSE [ops |-> <<look, Op("fromstring", file_name, <<>>, file, TRUE, NoFile, t)>>,
               err |-> "", wsdl |-> file, store |-> FALSE]

Init ==
    /\ now = 0
    /\ ticks = 0
    /\ resolves = 0
    /\ stores = 0
    /\ tz \in TzOffsets
    /\ files = [k \in Keys |-> NoFile]
    /\ lsid = None
    /\ url_part = None
    /\ service_url = None
    /\ service_port = None
    /\ authority_url = None
    /\ data_url = None
    /\ metadata_url = None
    /\ pc = "idle"
    /\ ops = <<>>
    /\ err = ""
    /\ out = [data |-> Unset, metadata |-> Unset]
    /\ completed = None
    /\ _instance = NoCache
    /\ components = ResolverComponents
    /\ threads = [t \in Threads |-> NoCall]

\* ------------------------------------------------------------- the actions

\* The LSID of the last resolve_lsid that ran to its end without an
\* exception, noted when the Resolver is used again or dropped.
Completed == IF pc = "done" THEN lsid ELSE completed

\* Time passes.
Tick(d) ==
    /\ Idle
    /\ ticks < MaxTicks
    /\ now' = now + d
    /\ ticks' = ticks + 1
    /\ UNCHANGED <<calls, tz, files, lsid, authority, service, pc, ops, err, out, completed, objects, threads>>

\* Another user of the Cache object stores a file.
ClientStore(p, n, b) ==
    /\ Idle
    /\ stores < MaxStores
    /\ stores' = stores + 1
    /\ _instance' = Singleton_call(_instance)
    /\ files' = store_cache_file(files, p, n, b, now)
    /\ UNCHANGED <<clock, resolves, lsid, authority, service, pc, ops, err, out, completed, components, threads>>

\* Resolver(): a new resolver with a new Authority and a new Service.
NewResolver ==
    /\ Idle
    /\ lsid' = None
    /\ url_part' = None
    /\ service_url' = None
    /\ service_port' = None
    /\ authority_url' = None
    /\ data_url' = None
    /\ metadata_url' = None
    /\ pc' = "idle"
    /\ ops' = <<>>
    /\ err' = ""
    /\ out' = [data |-> Unset, metadata |-> Unset]
    /\ completed' = Completed
    /\ components' = ResolverComponents
    /\ UNCHANGED <<clock, calls, files, _instance, threads>>

\* The caller's set_lsid(l) and resolve_lsid(), as in main, up to and with
\* the first call of resolve_lsid, validate_lsid.
ValidateLsid(l) ==
    /\ Idle
    /\ resolves < MaxResolves
    /\ resolves' = resolves + 1
    /\ lsid' = l
    /\ LET e == validate_lsid(l) IN
       /\ ops' = <<Op("validate_lsid", "", l, <<>>, e = "", NoFile, now)>> \o Except(e, now)
       /\ err' = e
       /\ pc' = NextPc("validate_lsid", e)
    /\ out' = [data |-> Unset, metadata |-> Unset]
    /\ completed' = Completed
    /\ UNCHANGED <<clock, stores, files, authority, service, objects, threads>>

\* Authority.get_authority_part, with set_service_url: the DNS query raises,
\* or answers.  With log, the entry of ops keeps the records of the answer.
AuthorityPart(log) ==
    /\ pc = "get_authority_part"
    /\ LET part == Split(lsid, ":")[3]
           query == Op("dns.resolver.query", "", <<"_lsid._tcp.">> \o part, <<>>,
                       TRUE, NoFile, now)
       IN
       /\ url_part' = part
       /\ \/ /\ ops' = Append(ops, [query EXCEPT !.ok = FALSE]) \o Except("DNSException", now)
             /\ err' = "DNSException"
             /\ pc' = NextPc("get_authority_part", "DNSException")
             /\ UNCHANGED <<service_url, service_port>>
          \/ \E answers \in DnsAnswers :
                LET r == set_service_url(answers, service_url, service_port) IN
                /\ ops' = Append(ops, IF log THEN [query EXCEPT !.ret = answers] ELSE query)
                              \o Except(r.err, now)
                /\ service_url' = r.service_url
                /\ service_port' = r.service_port
                /\ err' = r.err
                /\ pc' = NextPc("get_authority_part", r.err)
    /\ UNCHANGED <<clock, calls, files, lsid, authority_url, service, out, completed, objects, threads>>

\* Authority.get_authority_part as a step of resolve_lsid.
GetAuthorityPart == AuthorityPart(FALSE)

\* Authority.get_authority_wsdl, with extract_authority_url.
GetAuthorityWsdl ==
    /\ pc = "get_authority_wsdl"
    /\ \E resp \in {HttpError} \cup AuthorityBodies :
          LET file == check_cache_file(files, url_part, "authority.wsdl", now, tz)
              f == FetchWsdl("authority.wsdl", file, files[<<url_part, "authority.wsdl">>],
                             AuthorityWsdlUrl(service_url, service_port), resp, now)
              x == IF f.err = ""
                   THEN extract_authority_url(f.wsdl, authority_url)
                   ELSE [authority_url |-> authority_url, err |-> f.err]
          IN
          /\ _instance' = Singleton_call(_instance)
          /\ files' = IF f.store
                      THEN store_cache_file(files, url_part, "authority.wsdl", resp, now)
                      ELSE files
          /\ ops' = ops \o f.ops \o Except(x.err, now)
          /\ authority_url' = x.authority_url
          /\ err' = x.err
          /\ pc' = NextPc("get_authority_wsdl", x.err)
    /\ UNCHANGED <<clock, calls, lsid, url_part, service_url, service_port, service, out, completed, components, threads>>

\* Service.get_service_wsdl, with extract_service_url.
GetServiceWsdl ==
    /\ pc = "get_service_wsdl"
    /\ \E resp \in {HttpError} \cup ServiceBodies :
          LET file == check_cache_file(files, url_part, "service.wsdl", now, tz)
              f == FetchWsdl("service.wsdl", file, files[<<url_part, "service.wsdl">>],
                             ServiceWsdlUrl(authority_url, lsid), resp, now)
              x == IF f.err = ""
                   THEN extract_service_url(f.wsdl, data_url, metadata_url)
                   ELSE [data_url |-> data_url, metadata_url |-> metadata_url,
                         err |-> f.err]
          IN
          /\ _instance' = Singleton_call(_instance)
          /\ files' = IF f.store
                      THEN store_cache_file(files, url_part, "service.wsdl", resp, now)
                      ELSE files
          /\ ops' = ops \o f.ops \o Except(x.err, now)
          /\ data_url' = x.data_url
          /\ metadata_url' = x.metadata_url
          /\ err' = x.err
          /\ pc' = NextPc("get_service_wsdl", x.err)
    /\ UNCHANGED <<clock, calls, lsid, authority, out, completed, components, threads>>

\* Service.get_data, and the print of what it returns.
GetData ==
    /\ pc = "get_data"
    /\ IF data_url = None
       THEN /\ out' = [out EXCEPT !.data = False]
            /\ pc' = NextPc("get_data", "")
            /\ UNCHANGED <<ops, err>>
       ELSE \E resp \in {HttpError} \cup PayloadBodies :
               LET e == IF resp = HttpError THEN "URLError" ELSE ""
                   url == PayloadUrl(data_url, lsid)
               IN
               /\ ops' = Append(ops, Op("urlopen", "data", url,
                                        IF e = "" THEN resp ELSE <<>>, e = "", NoFile, now))
                              \o Except(e, now)
               /\ out' = IF e = "" THEN [out EXCEPT !.data = resp] ELSE out
               /\ err' = e
               /\ pc' = NextPc("get_data", e)
    /\ UNCHANGED <<clock, calls, files, lsid, authority, service, completed, objects, threads>>

\* Service.get_metadata, and the print of what it returns.
GetMetadata ==
    /\ pc = "get_metadata"
    /\ IF metadata_url = None
       THEN /\ out' = [out EXCEPT !.metadata = NoneBytes]
            /\ pc' = NextPc("get_metadata", "")
            /\ UNCHANGED <<ops, err>>
       ELSE \E resp \in {HttpError} \cup PayloadBodies :
               LET e == IF resp = HttpError THEN "URLError" ELSE ""
                   url == PayloadUrl(metadata_url, lsid)
               IN
               /\ ops' = Append(ops, Op("urlopen", "metadata", url,
                                        IF e = "" THEN resp ELSE <<>>, e = "", NoFile, now))
                              \o Except(e, now)
               /\ out' = IF e = "" THEN [out EXCEPT !.metadata = resp] ELSE out
               /\ err' = e
               /\ pc' = NextPc("get_metadata", e)
    /\ UNCHANGED <<clock, calls, files, lsid, authority, service, completed, objects, threads>>

Next ==
    \/ \E d \in TickSteps : Tick(d)
    \/ \E p \in Partitions, n \in FileNames, b \in ClientBytes : ClientStore(p, n, b)
    \/ NewResolver
    \/ \E l \in LsidInputs : ValidateLsid(l)
    \/ GetAuthorityPart
    \/ GetAuthorityWsdl
    \/ GetServiceWsdl
    \/ GetData
    \/ GetMetadata

Spec == Init /\ [][Next]_vars

\* ------------------------------------- authority discovery, answers logged

\* Authority.get_authority_part with the records of the DNS answer kept in
\* ops.
LocateAuthority == AuthorityPart(TRUE)

\* resolve_lsid up to and with the fetch of the authority description.
NextLocate ==
    \/ NewResolver
    \/ \E l \in LsidInputs : ValidateLsid(l)
    \/ LocateAuthority
    \/ GetAuthorityWsdl

SpecLocate == Init /\ [][NextLocate]_vars

\* ------------------------------------ the cache called through components

\* What the users of the cache store: two different byte strings.
CacheBytes == {<<Junk>>, Doc(<<>>)}

\* One entry of ops for a call of the cache made through a component: as Op,
\* with the component (its place in components) and the Cache object that
\* its cache_instance returned.
CacheOp(by, cache, op, service_name, file_name, ret, entry, at) ==
    [op |-> op, doc |-> file_name, arg |-> service_name, ret |-> ret, ok |-> TRUE,
     entry |-> entry, at |-> at, by |-> by, cache |-> cache]

\* A process in which no component has been constructed and the cache
\* directory is empty.
InitCache ==
    /\ now = 0
    /\ ticks = 0
    /\ resolves = 0
    /\ stores = 0
    /\ tz \in TzOffsets
    /\ files = [k \in Keys |-> NoFile]
    /\ lsid = None
    /\ url_part = None
    /\ service_url = None
    /\ service_port = None
    /\ authority_url = None
    /\ data_url = None
    /\ metadata_url = None
    /\ pc = "idle"
    /\ ops = <<>>
    /\ err = ""
    /\ out = [data |-> Unset, metadata |-> Unset]
    /\ completed = None
    /\ _instance = NoCache
    /\ components = <<>>
    /\ threads = [t \in Threads |-> NoCall]

\* Authority() or Service(): the constructors set fields to None and do not
\* touch the cache.
NewComponent(kind) ==
    /\ Len(components) < MaxComponents
    /\ components' = Append(components, kind)
    /\ UNCHANGED <<clock, calls, files, lsid, authority, service, pc, ops, err, out,
                   completed, _instance, threads>>

\* components[c].cache_instance.store_cache_file(p, n, b)
CacheStore(c, p, n, b) ==
    /\ Len(ops) < MaxCacheOps
    /\ _instance' = Singleton_call(_instance)
    /\ files' = store_cache_file(files, p, n, b, now)
    /\ ops' = Append(ops, CacheOp(c, _instance', "store_cache_file", p, n, b, NoFile, now))
    /\ UNCHANGED <<clock, calls, lsid, authority, service, pc, err, out, completed,
                   components, threads>>

\* components[c].cache_instance.check_cache_file(p, n)
CacheLookup(c, p, n) ==
    /\ Len(ops) < MaxCacheOps
    /\ _instance' = Singleton_call(_instance)
    /\ ops' = Append(ops, CacheOp(c, _instance', "check_cache_file", p, n,
                                  check_cache_file(files, p, n, now, tz),
                                  files[<<p, n>>], now))
    /\ UNCHANGED <<clock, calls, files, lsid, authority, service, pc, err, out,
                   completed, components, threads>>

NextCache ==
    \/ \E kind \in {"Authority", "Service"} : NewComponent(kind)
    \/ \E c \in DOMAIN components, p \in Partitions, n \in FileNames, b \in CacheBytes :
          CacheStore(c, p, n, b)
    \/ \E c \in DOMAIN components, p \in Partitions, n \in FileNames :
          CacheLookup(c, p, n)
    \/ \E d \in TickSteps : Tick(d)

SpecCache == InitCache /\ [][NextCache]_vars

\* ------------------------------------ the cache called by several threads

\* The bytes of a file that was stored before the threads start, and the
\* byte strings the threads store; each is written in two pieces.
OldBytes == <<Mark("old-1"), Mark("old-2")>>
ThreadBytes == {<<Mark("new-1"), Mark("new-2")>>, <<Mark("other-1"), Mark("other-2")>>}

\* The file after one piece is written at offset pos: over what is there,
\* at the end, or past the end (the gap reads as zero bytes).
WriteAt(content, pos, piece) ==
    IF pos < Len(content) THEN [content EXCEPT ![pos + 1] = piece]
    ELSE content \o [i \in 1..(pos - Len(content)) |-> Mark("zero")] \o <<piece>>

\* A process whose cache directory holds, for each key, no file or a file
\* stored before; no thread has called the cache yet.
InitConcurrent ==
    /\ now = 0
    /\ ticks = 0
    /\ resolves = 0
    /\ stores = 0
    /\ tz = 0
    /\ files \in [Keys -> {NoFile, [exists |-> TRUE, content |-> OldBytes, mtime |-> 0]}]
    /\ lsid = None
    /\ url_part = None
    /\ service_url = None
    /\ service_port = None
    /\ authority_url = None
    /\ data_url = None
    /\ metadata_url = None
    /\ pc = "idle"
    /\ ops = <<>>
    /\ err = ""
    /\ out = [data |-> Unset, metadata |-> Unset]
    /\ completed = None
    /\ _instance = NoCache
    /\ components = ResolverComponents
    /\ threads = [t \in Threads |-> NoCall]

\* What a step of a thread leaves alone, the files and the thread apart.
ThreadFrame ==
    UNCHANGED <<clock, calls, lsid, authority, service, pc, ops, err, out, completed,
                components>>

\* Thread t calls cache_instance.store_cache_file(p, n, b): Cache(), and
\* mkdir with exist_ok=True, which leaves an existing directory as it is.
StartStore(t, p, n, b) ==
    /\ threads[t].pc = "idle"
    /\ _instance' = Singleton_call(_instance)
    /\ threads' = [threads EXCEPT ![t] =
          [NoCall EXCEPT !.pc = "open", !.op = "store_cache_file",
                         !.service_name = p, !.file_name = n, !.content = b]]
    /\ UNCHANGED files
    /\ ThreadFrame

\* write_bytes opens the file with mode 'wb': the file exists and is empty.
OpenFile(t) ==
    /\ threads[t].pc = "open"
    /\ files' = [files EXCEPT ![<<threads[t].service_name, threads[t].file_name>>] =
          [exists |-> TRUE, content |-> <<>>, mtime |-> now]]
    /\ threads' = [threads EXCEPT ![t].pc = "write"]
    /\ UNCHANGED _instance
    /\ ThreadFrame

\* write_bytes writes the next piece at the offset of its own file object,
\* and closes the file after the last.
WriteChunk(t) ==
    /\ threads[t].pc = "write"
    /\ LET k == <<threads[t].service_name, threads[t].file_name>>
           pos == threads[t].pos
       IN
       /\ files' = [files EXCEPT ![k] =
             [exists |-> TRUE,
              content |-> WriteAt(files[k].content, pos, threads[t].content[pos + 1]),
              mtime |-> now]]
       /\ threads' = [threads EXCEPT ![t].pos = pos + 1,
                                     ![t].pc = IF pos + 1 = Len(threads[t].content)
                                               THEN "done" ELSE "write"]
    /\ UNCHANGED _instance
    /\ ThreadFrame

\* Thread t calls cache_instance.check_cache_file(p, n): Cache().
StartLookup(t, p, n) ==
    /\ threads[t].pc = "idle"
    /\ _instance' = Singleton_call(_instance)
    /\ threads' = [threads EXCEPT ![t] =
          [NoCall EXCEPT !.pc = "exists", !.op = "check_cache_file",
                         !.service_name = p, !.file_name = n]]
    /\ UNCHANGED files
    /\ ThreadFrame

\* cache_file.exists(): without the file check_cache_file returns False.
TestExists(t) ==
    /\ threads[t].pc = "exists"
    /\ threads' = IF files[<<threads[t].service_name, threads[t].file_name>>].exists
                  THEN [threads EXCEPT ![t].pc = "getmtime"]
                  ELSE [threads EXCEPT ![t].pc = "done", ![t].ret = False]
    /\ UNCHANGED <<files, _instance>>
    /\ ThreadFrame

\* get_cache_expiration(os.path.getmtime(...)): False for an expired file.
TestExpiration(t) ==
    /\ threads[t].pc = "getmtime"
    /\ threads' =
          IF get_cache_expiration(
                 files[<<threads[t].service_name, threads[t].file_name>>].mtime, now, tz)
          THEN [threads EXCEPT ![t].pc = "read"]
          ELSE [threads EXCEPT ![t].pc = "done", ![t].ret = False]
    /\ UNCHANGED <<files, _instance>>
    /\ ThreadFrame

\* cache_file.read_bytes(): what the file holds at this moment.
ReadBytes(t) ==
    /\ threads[t].pc = "read"
    /\ threads' = [threads EXCEPT
          ![t].pc = "done",
          ![t].ret = files[<<threads[t].service_name, threads[t].file_name>>].content]
    /\ UNCHANGED <<files, _instance>>
    /\ ThreadFrame

NextConcurrent ==
    \/ \E t \in Threads, p \in Partitions, n \in FileNames, b \in ThreadBytes :
          StartStore(t, p, n, b)
    \/ \E t \in Threads : OpenFile(t)
    \/ \E t \in Threads : WriteChunk(t)
    \/ \E t \in Threads, p \in Partitions, n \in FileNames : StartLookup(t, p, n)
    \/ \E t \in Threads : TestExists(t)
    \/ \E t \in Threads : TestExpiration(t)
    \/ \E t \in Threads : ReadBytes(t)

SpecConcurrent == InitConcurrent /\ [][NextConcurrent]_vars

\* ------------------------------------------- validate_lsid called directly

\* How the strings handed to validate_lsid start: "urn:lsid", the same in
\* mixed case, and the scheme of the bogus LSID of the tests.
Heads == {<<"u","r","n",":","l","s","i","d">>,
          <<"U","r","N",":","L","s","I","d">>,
          <<"u","r","n",":","l","s","r","s","p">>}

\* The fields between the colons after the head: empty, alphanumeric, with
\* punctuation of the class, with a letter outside ASCII, with a blank, and
\* ending in a newline.
Fields == {<<>>, <<"a">>, <<"A", "_", "-">>, <<"a", "U+00E9">>, <<"a", " ">>,
           <<"1", "\n">>}

RECURSIVE Join(_)
\* Each field after a colon, in order.
Join(fs) == IF fs = <<>> THEN <<>> ELSE <<":">> \o Head(fs) \o Join(Tail(fs))

\* The strings a caller sets with set_lsid before it calls validate_lsid.
ValidateInputs ==
    LsidInputs
    \cup {h \o Join(fs) : h \in Heads,
                          fs \in UNION {[1..k -> Fields] : k \in 0..MaxSegments}}

\* A new Resolver on which set_lsid(l) was called, for each input l.
InitValidate ==
    /\ now = 0
    /\ ticks = 0
    /\ resolves = 0
    /\ stores = 0
    /\ tz = 0
    /\ files = [k \in Keys |-> NoFile]
    /\ lsid \in ValidateInputs
    /\ url_part = None
    /\ service_url = None
    /\ service_port = None
    /\ authority_url = None
    /\ data_url = None
    /\ metadata_url = None
    /\ pc = "idle"
    /\ ops = <<>>
    /\ err = ""
    /\ out = [data |-> Unset, metadata |-> Unset]
    /\ completed = None
    /\ _instance = NoCache
    /\ components = ResolverComponents
    /\ threads = [t \in Threads |-> NoCall]

\* Resolver.validate_lsid called by itself, as the tests call it: it returns
\* True or raises to its caller.
CallValidateLsid ==
    /\ pc = "idle"
    /\ LET e == validate_lsid(lsid) IN
       /\ ops' = <<Op("validate_lsid", "", lsid, <<>>, e = "", NoFile, now)>>
       /\ err' = e
       /\ pc' = IF e = "" THEN "done" ELSE "failed"
    /\ UNCHANGED <<clock, calls, files, lsid, authority, service, out, completed, objects, threads>>

NextValidate == CallValidateLsid

SpecValidate == InitValidate /\ [][NextValidate]_vars

\* ------------------------------------------------------------ the claims

\* The places in ops of the calls op about the document doc.
Calls(op, doc) == {i \in DOMAIN ops : ops[i].op = op /\ ops[i].doc = doc}

\* The cache lookups of the current resolve_lsid that found a file.
Lookups == {i \in DOMAIN ops : ops[i].op = "check_cache_file" /\ ops[i].entry.exists}

\* The seconds between the store of the file a lookup found and the lookup.
Age(i) == ops[i].at - ops[i].entry.mtime

\* The pipeline step an entry of ops belongs to; the except clause comes last.
StepOf(o) ==
    CASE o.op = "validate_lsid" -> 1
      [] o.op = "dns.resolver.query" -> 2
      [] o.doc = "authority.wsdl" -> 3
      [] o.doc = "service.wsdl" -> 4
      [] o.doc = "data" -> 5
      [] o.doc = "metadata" -> 6
      [] OTHER -> 7

\* The except clause ran right after the calls about the document doc: the
\* step that fetches doc failed.
FailedAt(doc) ==
    \E j \in 2..Len(ops) : ops[j].op = "except" /\ ops[j - 1].doc = doc

\* C1: a cache lookup made less than 172800 seconds after the store of the
\* file returns exactly the stored bytes, and one made after the window has
\* elapsed returns False (Absent), in every time zone.
C1_LookupFollowsElapsedTime ==
    \A i \in Lookups :
        /\ Age(i) < CACHE_TIME => ops[i].ret = ops[i].entry.content
        /\ Age(i) > CACHE_TIME => ops[i].ret = False

\* C2: a cache lookup returns bytes only if the file is strictly younger than
\* the retention window; at an age of exactly 172800 seconds it returns
\* False (Absent).
C2_BytesOnlyStrictlyInsideWindow ==
    \A i \in DOMAIN ops :
        (ops[i].op = "check_cache_file" /\ ops[i].ret # False)
            => (ops[i].entry.exists /\ Age(i) < CACHE_TIME)

\* C3: when the cache holds an unexpired entry for a description document,
\* whatever its bytes, the fetch of that document opens no URL and the parse
\* runs on exactly the cached bytes.
C3_HitMakesNoRequest ==
    \A i \in Lookups :
        Age(i) < CACHE_TIME =>
            /\ Calls("urlopen", ops[i].doc) = {}
            /\ i < Len(ops)
            /\ ops[i + 1].op = "fromstring"
            /\ ops[i + 1].ret = ops[i].entry.content

\* C4: on a cache miss a successful fetch stores exactly the response body,
\* and while that file is younger than the retention window a lookup of the
\* document returns that body (the next fetch is a cache hit).
C4_FetchedBodyIsServedFromCache ==
    \A n \in FileNames : \A i \in Calls("urlopen", n) :
        (ops[i].ok /\ Parses(ops[i].ret)) =>
            /\ \E j \in Calls("store_cache_file", n) : j > i /\ ops[j].ret = ops[i].ret
            /\ LET f == files[<<url_part, n>>] IN
               (f.exists /\ f.content = ops[i].ret /\ f.mtime = ops[i].at
                    /\ now - f.mtime < CACHE_TIME)
                   => LET file == check_cache_file(files, url_part, n, now, tz) IN
                      ~Not(file) /\ file = ops[i].ret

\* C5: the calls of a resolve run in the order validation, DNS query,
\* authority description, service description, payload GETs; a call of the
\* first three steps that raises is followed by the except clause at once,
\* nothing is done after the except clause, which runs exactly when the
\* resolve has failed; and a resolve whose validation fails does nothing
\* but validate and report (no DNS query, no HTTP request, no cache access).
C5_FailureAbortsThePipeline ==
    /\ \A i \in DOMAIN ops : \A j \in DOMAIN ops :
          i < j => StepOf(ops[i]) <= StepOf(ops[j])
    /\ \A j \in DOMAIN ops :
          /\ StepOf(ops[j]) \in 2..4 => \E i \in 1..(j - 1) : StepOf(ops[i]) = StepOf(ops[j]) - 1
          /\ StepOf(ops[j]) \in 5..6 => \E i \in 1..(j - 1) : StepOf(ops[i]) = 4
          /\ ops[j].op = "except" => j = Len(ops)
          /\ (~ops[j].ok /\ StepOf(ops[j]) <= 4) => (j < Len(ops) /\ ops[j + 1].op = "except")
    /\ (pc = "failed") = (err # "")
    /\ (pc = "failed") = (ops # <<>> /\ ops[Len(ops)].op = "except")
    /\ (ops # <<>> /\ ~ops[1].ok) => (Len(ops) = 2 /\ pc = "failed")

\* C5's case: the authority description was fetched and has no unique
\* authority binding; the resolve has failed before service discovery.
C5_Witness ==
    /\ pc = "failed"
    /\ err = "NoElementError"
    /\ Calls("urlopen", "authority.wsdl") # {}
    /\ Calls("check_cache_file", "service.wsdl") = {}

\* C6: when a data endpoint and a metadata endpoint are both present and the
\* GET of the data endpoint fails, the GET of the metadata endpoint is still
\* attempted before the resolve ends.
C6_MetadataStillAttempted ==
    (pc \in {"done", "failed"} /\ metadata_url # None)
        => \A i \in Calls("urlopen", "data") :
              ~ops[i].ok => Calls("urlopen", "metadata") # {}

\* C7: when the service description of the resolve has neither a data nor a
\* metadata binding, no payload GET is issued and the resolve completes, not
\* fails, with both payloads absent.
C7_NoBindingsNoPayloads ==
    \A i \in Calls("fromstring", "service.wsdl") :
        (ops[i].ok /\ SelectNodes(ops[i].ret, "data") = <<>>
                   /\ SelectNodes(ops[i].ret, "metadata") = <<>>)
            => /\ Calls("urlopen", "data") = {}
               /\ Calls("urlopen", "metadata") = {}
               /\ pc \in {"get_data", "get_metadata", "done"}
               /\ pc = "done" => (out.data = False /\ out.metadata = NoneBytes)

\* Every address element of the nodes has a location attribute with a value.
AllLocated(nodes) ==
    \A k \in DOMAIN nodes : nodes[k].location # None /\ nodes[k].location # <<>>

\* C8: for an authority description whose matching address elements carry a
\* location (an attribute with a value), extraction succeeds and sets
\* authority_url to that location exactly when there is one matching
\* element, and fails with NoElementError when there are none or several.
C8_ExactlyOneAuthorityBinding ==
    \A i \in Calls("fromstring", "authority.wsdl") :
        LET nodes == SelectNodes(ops[i].ret, "authority") IN
        (ops[i].ok /\ AllLocated(nodes)) =>
            IF Len(nodes) = 1
            THEN ~FailedAt("authority.wsdl") /\ authority_url = nodes[1].location
            ELSE FailedAt("authority.wsdl") /\ err = "NoElementError"

\* C8's case: a description with exactly one located authority binding was
\* parsed and the resolve went on to service discovery with its location.
C8_Witness ==
    /\ pc = "get_service_wsdl"
    /\ \E i \in Calls("fromstring", "authority.wsdl") :
          LET nodes == SelectNodes(ops[i].ret, "authority") IN
          ops[i].ok /\ Len(nodes) = 1 /\ AllLocated(nodes)
              /\ authority_url = nodes[1].location

\* C9: when the authority description has exactly one matching address
\* element and it has no location attribute, extraction fails with
\* NoValueError and no other exception.
C9_MissingLocationIsNoValueError ==
    \A i \in Calls("fromstring", "authority.wsdl") :
        LET nodes == SelectNodes(ops[i].ret, "authority") IN
        (ops[i].ok /\ Len(nodes) = 1 /\ nodes[1].location = None)
            => (FailedAt("authority.wsdl") /\ err = "NoValueError")

\* C10: whatever the data binding of a service description is (missing,
\* duplicated, without a location), a unique metadata binding with a
\* location is extracted: metadata_url is its location.
C10_MetadataIndependentOfData ==
    \A i \in Calls("fromstring", "service.wsdl") :
        LET m == SelectNodes(ops[i].ret, "metadata") IN
        (ops[i].ok /\ Len(m) = 1 /\ m[1].location # None)
            => metadata_url = m[1].location

\* The character class of an LSID segment: ASCII letters, digits and the
\* punctuation ( ) + , - . = @ ; $ " ! * ' _
CanonicalClass ==
    Alnum \cup {"(", ")", "+", ",", "-", ".", "=", "@", ";", "$", "\"", "!", "*", "'", "_"}

\* A segment of the canonical grammar: not empty, alphanumeric first, over
\* the class.
CanonicalSegment(f) ==
    /\ Len(f) >= 1
    /\ f[1] \in Alnum
    /\ \A i \in 1..Len(f) : f[i] \in CanonicalClass

\* The canonical LSID grammar: urn:lsid: in any case, then authority,
\* namespace and object segments and an optional revision segment.
Canonical(s) ==
    LET f == Split(s, ":") IN
    /\ Len(f) \in {5, 6}
    /\ Len(f[1]) = 3
    /\ f[1][1] \in {"u", "U"} /\ f[1][2] \in {"r", "R"} /\ f[1][3] \in {"n", "N"}
    /\ Len(f[2]) = 4
    /\ f[2][1] \in {"l", "L"} /\ f[2][2] \in {"s", "S"}
    /\ f[2][3] \in {"i", "I"} /\ f[2][4] \in {"d", "D"}
    /\ \A i \in 3..Len(f) : CanonicalSegment(f[i])

\* C11: validate_lsid returns True for exactly the strings of the canonical
\* LSID grammar, and raises ValidationError for every other string.
C11_AcceptsExactlyTheGrammar ==
    \A i \in Calls("validate_lsid", "") :
        /\ ops[i].ok = Canonical(ops[i].arg)
        /\ ~ops[i].ok => err = "ValidationError"

\* Entry i of ops is the most recent store to the key that entry j looks up.
LatestStore(i, j) ==
    /\ i < j
    /\ ops[i].op = "store_cache_file"
    /\ ops[j].op = "check_cache_file"
    /\ ops[i].arg = ops[j].arg
    /\ ops[i].doc = ops[j].doc
    /\ \A k \in (i + 1)..(j - 1) :
          ~(/\ ops[k].op = "store_cache_file"
            /\ ops[k].arg = ops[j].arg
            /\ ops[k].doc = ops[j].doc)

\* C12: an Authority and a Service, however many components were made and
\* in whatever order, get the same Cache object from cache_instance, and a
\* lookup through the one made less than 172800 seconds after the latest
\* store to the key through the other returns the stored bytes.
C12_SameCacheThroughEveryComponent ==
    \A i \in DOMAIN ops : \A j \in DOMAIN ops :
        (/\ LatestStore(i, j)
         /\ components[ops[i].by] # components[ops[j].by]
         /\ ops[j].at - ops[i].at < CACHE_TIME) =>
            /\ ops[j].cache = ops[i].cache
            /\ ops[j].ret = ops[i].ret

\* C13: no step is retried: one resolve issues at most one DNS SRV query, at
\* most one GET per description document and at most one GET per payload
\* endpoint, whether the calls return or raise.
C13_NoStepIsRetried ==
    /\ Cardinality(Calls("validate_lsid", "")) <= 1
    /\ Cardinality(Calls("dns.resolver.query", "")) <= 1
    /\ \A doc \in FileNames \cup {"data", "metadata"} :
          Cardinality(Calls("urlopen", doc)) <= 1

\* C13's case: the GET of the authority description raised, and the resolve
\* has ended in failure after that one GET.
C13_Witness ==
    /\ pc = "failed"
    /\ err = "URLError"
    /\ \E i \in Calls("urlopen", "authority.wsdl") :
          ~ops[i].ok /\ Calls("urlopen", "authority.wsdl") = {i}

\* An SRV record has a usable target: something is left of it without its
\* trailing dot.
Usable(rec) == rec.target # <<>> /\ rec.target # <<".">>

\* C14: after a DNS answer, service_url and service_port are the target
\* (without one trailing dot) and the port of the last record of the answer;
\* the resolve goes on when that target is usable, and when no record of the
\* answer has a usable target it fails with NoValueError and nothing is done
\* about the authority description.
C14_LastRecordIsAuthoritative ==
    \A i \in Calls("dns.resolver.query", "") :
        ops[i].ok =>
            LET answers == ops[i].ret
                last == answers[Len(answers)]
            IN
            /\ \/ service_url \o <<".">> = last.target
               \/ last.target[Len(last.target)] # "." /\ service_url = last.target
            /\ service_port = (IF last.port = 443 THEN <<"443">> ELSE <<"80">>)
            /\ Usable(last) => ~(i < Len(ops) /\ ops[i + 1].op = "except")
            /\ (\A k \in DOMAIN answers : ~Usable(answers[k])) =>
                  /\ pc = "failed"
                  /\ err = "NoValueError"
                  /\ \A j \in DOMAIN ops : ops[j].doc # "authority.wsdl"

\* C14's case: an answer of two records that differ in target and port was
\* iterated, and the resolve went on with the host and port of the second.
C14_Witness ==
    /\ pc = "get_authority_wsdl"
    /\ \E i \in Calls("dns.resolver.query", "") :
          /\ ops[i].ok
          /\ Len(ops[i].ret) = 2
          /\ ops[i].ret[1].target # ops[i].ret[2].target
          /\ ops[i].ret[1].port # ops[i].ret[2].port
          /\ service_url \o <<".">> = ops[i].ret[2].target

\* Thread t has stored, or is storing, to the key of thread u.
StoresToKeyOf(t, u) ==
    /\ threads[t].op = "store_cache_file"
    /\ threads[t].service_name = threads[u].service_name
    /\ threads[t].file_name = threads[u].file_name

\* C15: a lookup that runs side by side with a store to its key returns
\* False (Absent), the bytes stored before, or the complete bytes of the
\* store, never an empty, truncated or mixed byte string; and when two
\* threads have stored different documents of one partition, both files
\* hold the complete bytes.
C15_ConcurrentCacheUseIsSafe ==
    /\ \A t \in Threads :
          (threads[t].op = "check_cache_file" /\ threads[t].pc = "done") =>
              \/ threads[t].ret = False
              \/ threads[t].ret = OldBytes
              \/ \E u \in Threads :
                    StoresToKeyOf(u, t) /\ threads[t].ret = threads[u].content
    /\ \A t \in Threads : \A u \in Threads :
          (/\ threads[t].op = "store_cache_file" /\ threads[t].pc = "done"
           /\ threads[u].op = "store_cache_file" /\ threads[u].pc = "done"
           /\ threads[t].service_name = threads[u].service_name
           /\ threads[t].file_name # threads[u].file_name) =>
              files[<<threads[t].service_name, threads[t].file_name>>].content
                  = threads[t].content

\* C16: a lookup made less than 172800 seconds after the most recent store
\* to its key returns exactly the bytes of that store, whatever was stored
\* to the key before (expired or not) and whatever was stored to other keys.
C16_LatestStoreWins ==
    \A j \in DOMAIN ops : \A i \in 1..(j - 1) :
        (LatestStore(i, j) /\ ops[j].at - ops[i].at < CACHE_TIME)
            => ops[j].ret = ops[i].ret

\* C17: when a resolve of another LSID of the same authority has completed
\* and the service description it left in the cache is younger than the
\* retention window, the resolve opens no service-description URL and its
\* data and metadata endpoints are the locations of that description.
C17_ServiceDescriptionSharedByAuthority ==
    \A i \in Lookups :
        (/\ ops[i].doc = "service.wsdl"
         /\ completed # None
         /\ completed # lsid
         /\ Split(completed, ":")[3] = url_part
         /\ Parses(ops[i].entry.content)
         /\ Age(i) < CACHE_TIME) =>
            /\ Calls("urlopen", "service.wsdl") = {}
            /\ \A k \in DOMAIN ops[i].entry.content :
                  LET node == ops[i].entry.content[k] IN
                  /\ (node.binding = "data"
                        /\ Len(SelectNodes(ops[i].entry.content, "data")) = 1)
                       => data_url = node.location
                  /\ (node.binding = "metadata"
                        /\ Len(SelectNodes(ops[i].entry.content, "metadata")) = 1)
                       => metadata_url = node.location

\* The log o holds a GET of the description document doc that raised, or
\* that answered bytes that do not parse.
FetchFailed(o, doc) ==
    \E i \in DOMAIN o :
        /\ o[i].op = "urlopen"
        /\ o[i].doc = doc
        /\ ~o[i].ok \/ ~Parses(o[i].ret)

\* C18: the step in which the GET of a description document raises, or
\* answers bytes that are no XML, leaves every cache file as it was and
\* stores nothing, so that a lookup of the document is a miss from then on
\* (at once and after any lapse of time) and the next fetch opens the URL
\* again.
C18_FailedFetchStoresNothing ==
    [][\A doc \in FileNames :
          (~FetchFailed(ops, doc) /\ FetchFailed(ops', doc)) =>
              /\ files' = files
              /\ \A i \in DOMAIN ops' :
                    ~(ops'[i].op = "store_cache_file" /\ ops'[i].doc = doc)
              /\ \A d \in {0} \cup TickSteps :
                    Not(check_cache_file(files', url_part', doc, now' + d, tz'))]_vars

\* C18's case: the service description was fetched, the response was no
\* XML, the resolve has failed and the cache holds no service description.
C18_Witness ==
    /\ pc = "failed"
    /\ err = "XMLSyntaxError"
    /\ \E i \in Calls("urlopen", "service.wsdl") : ops[i].ok /\ ~Parses(ops[i].ret)
    /\ ~files[<<url_part, "service.wsdl">>].exists

\* The authority description b has no unique authority binding, or its
\* binding has no location.
BadBinding(b) ==
    LET nodes == SelectNodes(b, "authority") IN
    Len(nodes) # 1 \/ nodes[1].location = None \/ nodes[1].location = <<>>

\* C19: a fetched authority description that parses is stored even when it
\* has no unique authority binding or no location, and the resolve fails;
\* while that file is younger than the retention window, a resolve for the
\* authority opens no authority URL and fails with the extraction error of
\* the cached copy.
C19_BadDescriptionIsServedFromCache ==
    /\ \A i \in Calls("urlopen", "authority.wsdl") :
          (ops[i].ok /\ Parses(ops[i].ret) /\ BadBinding(ops[i].ret)) =>
              /\ \E j \in Calls("store_cache_file", "authority.wsdl") :
                    ops[j].ret = ops[i].ret
              /\ FailedAt("authority.wsdl")
    /\ \A i \in Lookups :
          (/\ ops[i].doc = "authority.wsdl"
           /\ Parses(ops[i].entry.content)
           /\ BadBinding(ops[i].entry.content)
           /\ Age(i) < CACHE_TIME) =>
              /\ Calls("urlopen", "authority.wsdl") = {}
              /\ FailedAt("authority.wsdl")
              /\ err = extract_authority_url(ops[i].entry.content, None).err

\* C20: after extract_service_url on the service description of the current
\* resolve, a role (data, metadata) without a unique binding in that
\* description has no endpoint, and no payload GET is issued for it,
\* whatever an earlier resolve on the same Resolver had set.
C20_EndpointsOnlyFromOwnDocuments ==
    \A i \in Calls("fromstring", "service.wsdl") :
        ops[i].ok =>
            /\ Len(SelectNodes(ops[i].ret, "data")) # 1 =>
                  (data_url = None /\ Calls("urlopen", "data") = {})
            /\ Len(SelectNodes(ops[i].ret, "metadata")) # 1 =>
                  (metadata_url = None /\ Calls("urlopen", "metadata") = {})

====
